---- MODULE Spec2Model ----
(***************************************************************************)
(* Employee Management API (FastAPI handlers over one MongoDB collection). *)
(* The state is the collection plus, for every in-flight request, the      *)
(* position of its handler between two awaited database calls.  Every      *)
(* action is one handler segment between two awaits: the event loop runs   *)
(* such a segment without interruption and may switch requests at every    *)
(* await.                                                                  *)
(***************************************************************************)
EXTENDS Integers, Sequences, FiniteSets

VARIABLES coll, nextId, pc, req, local, resp, pre, alone, nreq

vars == <<coll, nextId, pc, req, local, resp, pre, alone, nreq>>

(* ---------------------------------------------------------------- bounds *)

\* Number of requests the clients send in one behaviour.
MaxReqs == 3

\* Requests that can be in flight at the same time.
Procs == {"r1", "r2"}

(* ------------------------------------------------------ values and shapes *)

\* Python None / BSON null is None; a present value v is Some(v).
None == <<>>
Some(v) == <<v>>

EmpIds == {"E1", "E2"}

\* A datetime is <<day, time of day>>; time of day 0 is datetime.min.time().
\* A salary is counted in hundredths, so that $round to 2 places is exact.

\* datetime.combine(d, datetime.min.time()): the date kept, the time dropped.
Midnight(dt) == <<dt[1], 0>>

\* EmployeeCreate: every field required, none nullable.  The bodies sent are
\* three profiles under each employee_id: two share a department, two share
\* a joining day once the time is dropped.
NewEmployee(id, dept, sal, dt) ==
    [employee_id |-> id, name |-> Some("Ann"), department |-> Some(dept),
     salary |-> Some(sal), joining_date |-> Some(dt), skills |-> Some(<<"Go">>)]

EmployeeCreate ==
    UNION { { NewEmployee(id, "Eng", 10000, <<2, 1>>),
              NewEmployee(id, "Eng", 10001, <<1, 1>>),
              NewEmployee(id, "HR", 10001, <<2, 0>>) } : id \in EmpIds }

\* EmployeeUpdate: every field Optional with default None; fields_set is
\* pydantic's model_fields_set, the fields present in the request body.
NoUpdate ==
    [name |-> None, department |-> None, salary |-> None,
     joining_date |-> None, skills |-> None, fields_set |-> {}]

\* The bodies sent: the empty body, two fields with values (one of them a
\* joining_date with a time of day), and one field sent as null.
EmployeeUpdate ==
    { NoUpdate,
      [NoUpdate EXCEPT !.salary = Some(20000), !.joining_date = Some(<<3, 1>>),
                       !.fields_set = {"salary", "joining_date"}],
      [NoUpdate EXCEPT !.fields_set = {"department"}] }

\* The department query parameter of the list operation.
DepartmentParams == {None, Some(""), Some("Eng")}

\* A collection document that stands for "no employee body" in a request.
NoEmployee ==
    [employee_id |-> "", name |-> None, department |-> None, salary |-> None,
     joining_date |-> None, skills |-> None]

NoRequest ==
    [op |-> "none", employee_id |-> "", employee |-> NoEmployee,
     employee_update |-> NoUpdate, department |-> None]

\* The handler's local variables; written is the _id of the document the
\* request's update_one modified, <<>> as long as it modified none.
NoLocal == [inserted_id |-> 0, employee_data |-> NoEmployee, update_data |-> NoUpdate,
            existing_employee |-> <<>>, written |-> <<>>]

NoResponse == [status |-> 0, body |-> <<>>, rows |-> <<>>]

(* ------------------------------------------------------------- collection *)

\* collection.find_one({"employee_id": id}): the first match, <<>> for None.
RECURSIVE FindFrom(_, _, _)
FindFrom(c, id, i) ==
    IF i > Len(c) THEN 0
    ELSE IF c[i].employee_id = id THEN i ELSE FindFrom(c, id, i + 1)

FindIndex(c, id) == FindFrom(c, id, 1)

\* A lookup keyed on the wrong field: find_one({"name": id}).
FindOneByName(c, id) ==
    IF \E i \in 1..Len(c) : c[i].name = Some(id)
    THEN <<c[CHOOSE i \in 1..Len(c) : c[i].name = Some(id)]>>
    ELSE <<>>

FindOne(c, id) == IF FindIndex(c, id) = 0 THEN <<>> ELSE <<c[FindIndex(c, id)]>>

\* collection.find_one({"_id": oid})
FindById(c, oid) ==
    IF \E i \in 1..Len(c) : c[i]._id = oid
    THEN <<c[CHOOSE i \in 1..Len(c) : c[i]._id = oid]>>
    ELSE <<>>

\* collection.insert_one(data): the document gets a fresh _id.
InsertOne(c, data, oid) ==
    Append(c, [_id |-> oid, employee_id |-> data.employee_id, name |-> data.name,
               department |-> data.department, salary |-> data.salary,
               joining_date |-> data.joining_date, skills |-> data.skills])

\* {"$set": update_data} on one document: the dumped fields, nothing else.
SetFields(doc, ud) ==
    [doc EXCEPT
       !.name = IF "name" \in ud.fields_set THEN ud.name ELSE @,
       !.department = IF "department" \in ud.fields_set THEN ud.department ELSE @,
       !.salary = IF "salary" \in ud.fields_set THEN ud.salary ELSE @,
       !.joining_date = IF "joining_date" \in ud.fields_set THEN ud.joining_date ELSE @,
       !.skills = IF "skills" \in ud.fields_set THEN ud.skills ELSE @]

\* collection.update_one({"employee_id": id}, {"$set": ud}): first match only.
UpdateOne(c, id, ud) ==
    IF FindIndex(c, id) = 0 THEN c
    ELSE [c EXCEPT ![FindIndex(c, id)] = SetFields(@, ud)]

\* A delete whose filter is empty: delete_one({}) removes the first document.
DeleteOneUnfiltered(c, id) ==
    IF c = <<>> THEN [collection |-> c, deleted_count |-> 0]
    ELSE [collection |-> Tail(c), deleted_count |-> 1]

\* collection.delete_one({"employee_id": id}): first match only; the result
\* carries deleted_count.
DeleteOne(c, id) ==
    IF FindIndex(c, id) = 0 THEN [collection |-> c, deleted_count |-> 0]
    ELSE [collection |->
             [i \in 1..(Len(c) - 1) |-> IF i < FindIndex(c, id) THEN c[i] ELSE c[i + 1]],
          deleted_count |-> 1]

\* Employee(**doc): every field is required and none is Optional.
ValidEmployee(doc) ==
    /\ doc.name # None
    /\ doc.department # None
    /\ doc.salary # None
    /\ doc.joining_date # None
    /\ doc.skills # None

(* ------------------------------------------------------------------ create *)

\* The dump inserted as it is, the joining_date keeping its time of day.
EmployeeDataAsSent(e) == e

\* employee.model_dump(), joining_date combined with datetime.min.time().
EmployeeData(e) == [e EXCEPT !.joining_date = Some(Midnight(e.joining_date[1]))]

CanStart(p) == pc[p] \in {"idle", "done"} /\ nreq < MaxReqs

\* One handler segment of request p.  The response of a request that has
\* returned is sent before any other segment runs, so the other finished
\* requests leave the state; alone[q] records that no other request ran
\* between the first segment of q and now.
Segment(p, newpc, newreq, newlocal, newresp, newpre, newalone) ==
    /\ pc' = [q \in Procs |-> IF q = p THEN newpc
                                ELSE IF pc[q] = "done" THEN "idle" ELSE pc[q]]
    /\ req' = [q \in Procs |-> IF q = p THEN newreq
                                 ELSE IF pc[q] = "done" THEN NoRequest ELSE req[q]]
    /\ local' = [q \in Procs |-> IF q = p THEN newlocal
                                   ELSE IF pc[q] = "done" THEN NoLocal ELSE local[q]]
    /\ resp' = [q \in Procs |-> IF q = p THEN newresp
                                  ELSE IF pc[q] = "done" THEN NoResponse ELSE resp[q]]
    /\ pre' = [q \in Procs |-> IF q = p THEN newpre
                                 ELSE IF pc[q] = "done" THEN <<>> ELSE pre[q]]
    /\ alone' = [q \in Procs |-> IF q = p THEN newalone ELSE FALSE]

\* The first segment of a request: it is counted, and the collection it
\* starts from is remembered.
First(p, newpc, newreq, newlocal, newresp) ==
    /\ CanStart(p)
    /\ nreq' = nreq + 1
    /\ Segment(p, newpc, newreq, newlocal, newresp, coll, TRUE)

\* A later segment of a request.
Later(p, newpc, newlocal, newresp) ==
    /\ nreq' = nreq
    /\ Segment(p, newpc, req[p], newlocal, newresp, pre[p], alone[p])

Response(status, body) == [status |-> status, body |-> body, rows |-> <<>>]

\* create_employee up to its second await: the lookup and the duplicate check.
CreateLookup(p) ==
    \E e \in EmployeeCreate :
        LET r == [NoRequest EXCEPT !.op = "create", !.employee_id = e.employee_id,
                                   !.employee = e]
            existing_employee == FindOne(coll, e.employee_id)
        IN  /\ IF existing_employee # <<>>
               THEN First(p, "done", r, NoLocal, Response(400, <<>>))
               ELSE First(p, "create_insert", r,
                          [NoLocal EXCEPT !.employee_data = EmployeeData(e)], NoResponse)
            /\ UNCHANGED <<coll, nextId>>

\* insert_one(employee_data)
CreateInsert(p) ==
    /\ pc[p] = "create_insert"
    /\ coll' = InsertOne(coll, local[p].employee_data, nextId)
    /\ nextId' = nextId + 1
    /\ Later(p, "create_reread", [local[p] EXCEPT !.inserted_id = nextId], NoResponse)

\* find_one({"_id": inserted_id}); new_employee["_id"] = ...; Employee(**new_employee)
CreateReread(p) ==
    /\ pc[p] = "create_reread"
    /\ LET new_employee == FindById(coll, local[p].inserted_id) IN
         IF new_employee = <<>> \/ ~ValidEmployee(new_employee[1])
         THEN Later(p, "done", local[p], Response(500, <<>>))
         ELSE Later(p, "done", local[p], Response(201, new_employee))
    /\ UNCHANGED <<coll, nextId>>

(* --------------------------------------------------------------------- get *)

\* The response of get_employee_by_id on collection c.
GetResponse(c, id) ==
    LET employee == FindOne(c, id) IN
      IF employee = <<>> THEN Response(404, <<>>)
      ELSE IF ~ValidEmployee(employee[1]) THEN Response(500, <<>>)
      ELSE Response(200, employee)

GetEmployeeById(p) ==
    \E id \in EmpIds :
        /\ First(p, "done", [NoRequest EXCEPT !.op = "get", !.employee_id = id],
                 NoLocal, GetResponse(coll, id))
        /\ UNCHANGED <<coll, nextId>>

(* ------------------------------------------------------------------ update *)

\* employee_update.model_dump(exclude_unset=True), a joining_date that is a
\* date combined with datetime.min.time(); a None joining_date stays None.
UpdateData(u) ==
    [u EXCEPT !.joining_date =
        IF "joining_date" \in u.fields_set /\ u.joining_date # None
        THEN Some(Midnight(u.joining_date[1])) ELSE @]

\* update_employee up to its second await: the lookup, the 404, the dump and
\* the early return of the record as found when the dump is empty.
UpdateLookup(p) ==
    \E id \in EmpIds, u \in EmployeeUpdate :
        LET r == [NoRequest EXCEPT !.op = "update", !.employee_id = id,
                                   !.employee_update = u]
            existing_employee == FindOne(coll, id)
            update_data == UpdateData(u)
            l == [NoLocal EXCEPT !.existing_employee = existing_employee,
                                 !.update_data = update_data]
        IN  /\ IF existing_employee = <<>>
               THEN First(p, "done", r, NoLocal, Response(404, <<>>))
               ELSE IF update_data.fields_set = {}
               THEN IF ValidEmployee(existing_employee[1])
                    THEN First(p, "done", r, l, Response(200, existing_employee))
                    ELSE First(p, "done", r, l, Response(500, <<>>))
               ELSE First(p, "update_write", r, l, NoResponse)
            /\ UNCHANGED <<coll, nextId>>

\* update_one({"employee_id": employee_id}, {"$set": update_data})
UpdateWrite(p) ==
    /\ pc[p] = "update_write"
    /\ coll' = UpdateOne(coll, req[p].employee_id, local[p].update_data)
    /\ nextId' = nextId
    /\ LET i == FindIndex(coll, req[p].employee_id) IN
         Later(p, "update_reread",
               [local[p] EXCEPT !.written = IF i = 0 THEN <<>> ELSE <<coll[i]._id>>],
               NoResponse)

\* find_one again; updated_employee["_id"] = ...; Employee(**updated_employee)
UpdateReread(p) ==
    /\ pc[p] = "update_reread"
    /\ LET updated_employee == FindOne(coll, req[p].employee_id) IN
         IF updated_employee = <<>> \/ ~ValidEmployee(updated_employee[1])
         THEN Later(p, "done", local[p], Response(500, <<>>))
         ELSE Later(p, "done", local[p], Response(200, updated_employee))
    /\ UNCHANGED <<coll, nextId>>

(* ------------------------------------------------------------------ delete *)

\* delete_one, then 404 when deleted_count is 0 and 204 otherwise.
DeleteEmployee(p) ==
    \E id \in EmpIds :
        LET delete_result == DeleteOne(coll, id) IN
          /\ First(p, "done", [NoRequest EXCEPT !.op = "delete", !.employee_id = id],
                   NoLocal,
                   IF delete_result.deleted_count = 0 THEN Response(404, <<>>)
                   ELSE Response(204, <<>>))
          /\ coll' = delete_result.collection
          /\ nextId' = nextId

(* -------------------------------------------------------------------- list *)

\* query = {}; if department: query["department"] = department
Query(department) ==
    IF department = None \/ department = Some("") THEN None ELSE department

\* find(query): the documents the query matches, in natural order.
Find(c, query) ==
    SelectSeq(c, LAMBDA d : query = None \/ d.department = query)

\* The BSON sort key of joining_date: null sorts below every date.
DateKey(doc) ==
    IF doc.joining_date = None THEN 0
    ELSE 2 * doc.joining_date[1][1] + doc.joining_date[1][2]

Orders(n) ==
    {f \in [1..n -> 1..n] : \A i, j \in 1..n : f[i] = f[j] => i = j}

\* .sort("joining_date", -1): the documents by descending key; the order of
\* documents with equal keys is not specified by the database.
SortDescending(s) ==
    { t \in {[i \in 1..Len(s) |-> s[f[i]]] : f \in Orders(Len(s))} :
        \A i \in 1..(Len(t) - 1) : DateKey(t[i]) >= DateKey(t[i + 1]) }

\* Employee(**employee) for every document of the cursor.
ListResponse(employees) ==
    IF \E i \in 1..Len(employees) : ~ValidEmployee(employees[i])
    THEN Response(500, <<>>)
    ELSE Response(200, employees)

ListEmployeesByDepartment(p) ==
    \E department \in DepartmentParams :
      \E employees \in SortDescending(Find(coll, Query(department))) :
        /\ First(p, "done", [NoRequest EXCEPT !.op = "list", !.department = department],
                 NoLocal, ListResponse(employees))
        /\ UNCHANGED <<coll, nextId>>

(* ------------------------------------------------------------- avg-salary *)

RECURSIVE SumSalary(_)
SumSalary(s) == IF s = <<>> THEN 0 ELSE Head(s).salary[1] + SumSalary(Tail(s))

\* {"$avg": "$salary"} over one group: non-numeric values are ignored, and
\* a group without a numeric value yields null.  The mean is <<sum, count>>.
Avg(group) ==
    LET numeric == SelectSeq(group, LAMBDA d : d.salary # None) IN
      IF numeric = <<>> THEN None ELSE Some(<<SumSalary(numeric), Len(numeric)>>)

\* {"$round": [x, 2]}: to the nearest hundredth, a tie to the even one.
Round(avg) ==
    IF avg = None THEN None
    ELSE LET sum == avg[1][1]
             n == avg[1][2]
             q == sum \div n
             r == sum % n
         IN  Some(IF 2 * r < n THEN q
                  ELSE IF 2 * r > n THEN q + 1
                  ELSE IF q % 2 = 0 THEN q ELSE q + 1)

\* $group on "$department" and $project: one row for each _id.
GroupRows(c) ==
    { [department |-> d,
       avg_salary |-> Round(Avg(SelectSeq(c, LAMBDA x : x.department = d)))] :
      d \in {c[i].department : i \in 1..Len(c)} }

\* BSON order of the values a department can hold: null, then strings.
DepartmentKey(d) ==
    IF d = None THEN 0
    ELSE CASE d[1] = "" -> 1 [] d[1] = "Eng" -> 2 [] d[1] = "HR" -> 3

\* {"$sort": {"department": 1}}
SortRows(rows) ==
    CHOOSE s \in [1..Cardinality(rows) -> rows] :
        \A i, j \in 1..Cardinality(rows) :
            i < j => DepartmentKey(s[i].department) < DepartmentKey(s[j].department)

\* AverageSalaryByDepartment(**doc) for every row of the aggregation.
AvgResponse(c) ==
    LET rows == SortRows(GroupRows(c)) IN
      IF \E i \in 1..Len(rows) : rows[i].department = None \/ rows[i].avg_salary = None
      THEN [status |-> 500, body |-> <<>>, rows |-> <<>>]
      ELSE [status |-> 200, body |-> <<>>, rows |-> rows]

GetAverageSalaryByDepartment(p) ==
    /\ First(p, "done", [NoRequest EXCEPT !.op = "avg"], NoLocal, AvgResponse(coll))
    /\ UNCHANGED <<coll, nextId>>

(* ----------------------------------------------------------- specification *)

Init ==
    /\ coll = <<>>
    /\ nextId = 1
    /\ pc = [p \in Procs |-> "idle"]
    /\ req = [p \in Procs |-> NoRequest]
    /\ local = [p \in Procs |-> NoLocal]
    /\ resp = [p \in Procs |-> NoResponse]
    /\ pre = [p \in Procs |-> <<>>]
    /\ alone = [p \in Procs |-> FALSE]
    /\ nreq = 0

Next ==
    \E p \in Procs :
        \/ CreateLookup(p)
        \/ CreateInsert(p)
        \/ CreateReread(p)
        \/ GetEmployeeById(p)
        \/ UpdateLookup(p)
        \/ UpdateWrite(p)
        \/ UpdateReread(p)
        \/ DeleteEmployee(p)
        \/ ListEmployeesByDepartment(p)
        \/ GetAverageSalaryByDepartment(p)

Spec == Init /\ [][Next]_vars

(* -------------------------------------------------------------- properties *)

Done(p, op) == pc[p] = "done" /\ req[p].op = op

\* Some document of c carries employee_id id.
HasEmployee(c, id) == \E i \in 1..Len(c) : c[i].employee_id = id

\* C1: no two persisted records have the same employee_id, in every
\* reachable state, concurrent create requests included.
C1_UniqueEmployeeId ==
    \A i, j \in 1..Len(coll) : coll[i].employee_id = coll[j].employee_id => i = j

\* C2: a create of a valid input whose employee_id is not in the collection,
\* run with no other request in between, answers 201, and a get-by-id on the
\* collection it leaves answers 200 with the input's employee_id, name,
\* department, salary and skills, the input's joining day at midnight, and
\* an id no earlier record carries.
C2_CreateThenGet ==
    \A p \in Procs :
        (Done(p, "create") /\ alone[p] /\ ~HasEmployee(pre[p], req[p].employee_id))
        => /\ resp[p].status = 201
           /\ LET got == GetResponse(coll, req[p].employee_id)
                  sent == req[p].employee
              IN  /\ got.status = 200
                  /\ got.body[1].employee_id = sent.employee_id
                  /\ got.body[1].name = sent.name
                  /\ got.body[1].department = sent.department
                  /\ got.body[1].salary = sent.salary
                  /\ got.body[1].skills = sent.skills
                  /\ got.body[1].joining_date = Some(<<sent.joining_date[1][1], 0>>)
                  /\ got.body[1]._id > 0
                  /\ \A i \in 1..Len(pre[p]) : pre[p][i]._id # got.body[1]._id

\* C2 witness: a create whose joining_date carried a time of day has answered
\* 201 with no other request in between.
C2_Witness ==
    \E p \in Procs :
        /\ Done(p, "create") /\ alone[p] /\ resp[p].status = 201
        /\ req[p].employee.joining_date[1][2] # 0
        /\ pre[p] # <<>>

\* C3: of two creates with the same employee_id run one after the other, the
\* first (the id is not in the collection) answers 201 and leaves one record
\* with that id, and the second (the id is in the collection) answers 400 and
\* leaves the collection as it found it.
C3_DuplicateCreateRejected ==
    \A p \in Procs :
        /\ (Done(p, "create") /\ alone[p] /\ ~HasEmployee(pre[p], req[p].employee_id))
           => /\ resp[p].status = 201
              /\ Cardinality({i \in 1..Len(coll) :
                                coll[i].employee_id = req[p].employee_id}) = 1
        /\ (Done(p, "create") /\ alone[p] /\ HasEmployee(pre[p], req[p].employee_id))
           => /\ resp[p].status = 400
              /\ coll = pre[p]

\* C3 witness: a create has answered 400 on a collection that holds the
\* record an earlier create of the same employee_id inserted.
C3_Witness ==
    \E p \in Procs :
        /\ Done(p, "create") /\ alone[p] /\ resp[p].status = 400
        /\ \E i \in 1..Len(coll) :
              /\ coll[i].employee_id = req[p].employee_id
              /\ coll[i].department # req[p].employee.department

\* C4: a get, an update or a delete whose employee_id matches no record
\* answers 404 and leaves the collection as it found it.
C4_NotFound ==
    \A p \in Procs :
        ((Done(p, "get") \/ Done(p, "update") \/ Done(p, "delete"))
         /\ alone[p] /\ ~HasEmployee(pre[p], req[p].employee_id))
        => /\ resp[p].status = 404
           /\ coll = pre[p]

\* C4 witness: a delete of an absent employee_id has answered 404 on a
\* collection that holds another employee.
C4_Witness ==
    \E p \in Procs :
        /\ Done(p, "delete") /\ alone[p] /\ resp[p].status = 404
        /\ coll # <<>>

\* The position in c of the record a request on employee_id id acts on.
FirstWith(c, id) ==
    CHOOSE i \in 1..Len(c) :
        /\ c[i].employee_id = id
        /\ \A j \in 1..(i - 1) : c[j].employee_id # id

\* C5: an update of an existing record, run with no other request in between,
\* changes exactly the fields present in its body (joining_date at midnight)
\* and nothing else in the collection; with no field present it writes
\* nothing and answers 200 with the record as it was.
C5_UpdateFrame ==
    \A p \in Procs :
        (Done(p, "update") /\ alone[p] /\ HasEmployee(pre[p], req[p].employee_id))
        => LET u == req[p].employee_update
               i == FirstWith(pre[p], req[p].employee_id)
               old == pre[p][i]
           IN  /\ Len(coll) = Len(pre[p])
               /\ \A j \in 1..Len(coll) : j # i => coll[j] = pre[p][j]
               /\ coll[i]._id = old._id
               /\ coll[i].employee_id = old.employee_id
               /\ coll[i].name = IF "name" \in u.fields_set THEN u.name ELSE old.name
               /\ coll[i].department =
                      IF "department" \in u.fields_set THEN u.department ELSE old.department
               /\ coll[i].salary = IF "salary" \in u.fields_set THEN u.salary ELSE old.salary
               /\ coll[i].skills = IF "skills" \in u.fields_set THEN u.skills ELSE old.skills
               /\ coll[i].joining_date =
                      IF "joining_date" \notin u.fields_set THEN old.joining_date
                      ELSE IF u.joining_date = None THEN None
                      ELSE Some(<<u.joining_date[1][1], 0>>)
               /\ u.fields_set = {} =>
                      /\ coll = pre[p]
                      /\ resp[p].status = 200
                      /\ resp[p].body = <<old>>

\* C6: every persisted record has every field populated with a non-null
\* value, in every reachable state.
C6_AllFieldsPopulated ==
    \A i \in 1..Len(coll) :
        /\ coll[i].name # None
        /\ coll[i].department # None
        /\ coll[i].salary # None
        /\ coll[i].joining_date # None
        /\ coll[i].skills # None

\* C7: once a delete of an employee_id has answered 204, a get-by-id of that
\* employee_id on the collection it leaves answers 404.
C7_DeleteThenGet ==
    \A p \in Procs :
        (Done(p, "delete") /\ resp[p].status = 204)
        => GetResponse(coll, req[p].employee_id).status = 404

\* C8: list answers 200 with, for no department, every record, and for a
\* department D, exactly the records whose department is D, in both cases
\* by strictly descending joining_date.
C8_ListFilteredSorted ==
    \A p \in Procs :
        Done(p, "list")
        => LET D == req[p].department
               want == {i \in 1..Len(coll) : D = None \/ coll[i].department = D}
               body == resp[p].body
           IN  /\ resp[p].status = 200
               /\ Len(body) = Cardinality(want)
               /\ {body[k] : k \in 1..Len(body)} = {coll[i] : i \in want}
               /\ \A k \in 1..(Len(body) - 1) :
                      \/ body[k].joining_date[1][1] > body[k + 1].joining_date[1][1]
                      \/ /\ body[k].joining_date[1][1] = body[k + 1].joining_date[1][1]
                         /\ body[k].joining_date[1][2] > body[k + 1].joining_date[1][2]

\* The salaries present among the records of c whose department is d.
RECURSIVE SalariesOf(_, _)
SalariesOf(c, d) ==
    IF c = <<>> THEN <<>>
    ELSE IF Head(c).department = d /\ Head(c).salary # None
         THEN <<Head(c).salary[1]>> \o SalariesOf(Tail(c), d)
         ELSE SalariesOf(Tail(c), d)

RECURSIVE Total(_)
Total(s) == IF s = <<>> THEN 0 ELSE Head(s) + Total(Tail(s))

\* C9: avg-salary never fails: it answers 200 with one row for each distinct
\* department of the collection, by ascending department, the avg_salary of a
\* row being the mean salary of that department to the nearest hundredth.
C9_AverageSalary ==
    \A p \in Procs :
        Done(p, "avg")
        => LET rows == resp[p].rows IN
             /\ resp[p].status = 200
             /\ Len(rows) = Cardinality({coll[i].department : i \in 1..Len(coll)})
             /\ {rows[k].department : k \in 1..Len(rows)}
                    = {coll[i].department : i \in 1..Len(coll)}
             /\ \A k \in 1..(Len(rows) - 1) :
                    DepartmentKey(rows[k].department) < DepartmentKey(rows[k + 1].department)
             /\ \A k \in 1..Len(rows) :
                    LET sal == SalariesOf(coll, rows[k].department)
                        diff == rows[k].avg_salary[1] * Len(sal) - Total(sal)
                    IN  /\ sal # <<>>
                        /\ 2 * diff <= Len(sal)
                        /\ 2 * diff >= 0 - Len(sal)

\* C10: under every interleaving an update ends either with 200 and the full
\* record as its own write left it, or with 404 and no write, and it writes
\* to no record but the one its lookup found.
C10_UpdateAllOrNothing ==
    \A p \in Procs :
        Done(p, "update")
        => LET u == local[p].update_data
               found == local[p].existing_employee
           IN  /\ \/ /\ resp[p].status = 200
                     /\ Len(resp[p].body) = 1
                     /\ "name" \in u.fields_set => resp[p].body[1].name = u.name
                     /\ "department" \in u.fields_set
                            => resp[p].body[1].department = u.department
                     /\ "salary" \in u.fields_set => resp[p].body[1].salary = u.salary
                     /\ "joining_date" \in u.fields_set
                            => resp[p].body[1].joining_date = u.joining_date
                     /\ "skills" \in u.fields_set => resp[p].body[1].skills = u.skills
                  \/ /\ resp[p].status = 404
                     /\ local[p].written = <<>>
               /\ local[p].written # <<>> => local[p].written = <<found[1]._id>>

====
